---- MODULE Spec2Model ----
(***************************************************************************)
(* bdn/Number.h: the Number<BaseType> wrapper, the width-indexed bit       *)
(* operations (_IntOpImpl<1|2|4|8>, invertByteOrder, rotateBitsLeft,       *)
(* rotateBitsRight), the isNan / isFinite predicates and the std::hash     *)
(* specialisations.                                                        *)
(*                                                                         *)
(* An integer value of N bits is the set of the positions in 0..N-1 of its *)
(* 1 bits; bit i has weight 2^i (two's complement for the signed types).   *)
(* 32- and 64-bit values do not fit TLC's integers, so no value is held as *)
(* a number.                                                               *)
(* A floating point value is a record [cls, neg, mag]: cls is "num", "inf" *)
(* or "nan", neg the sign bit, mag the rank of the magnitude among the     *)
(* values numeric_limits names (0 zero, 1 denorm_min, 2 min, 3 one, 4 max).*)
(***************************************************************************)
EXTENDS Integers, Sequences, FiniteSets, TLC

VARIABLES
    build,      \* the preprocessor configuration the header is compiled under
    T,          \* the type the templates are instantiated with
    hist,       \* the calls of the bit operations made so far, oldest first
    x,          \* the integer the next bit operation is applied to
    _value,     \* Number<T>::_value
    assigned,   \* the raw argument last handed to the constructor, setValue or operator=
    ret         \* the last call of an observer, with its arguments and what it returned

vars == <<build, T, hist, x, _value, assigned, ret>>

\* The longest chain of bit operations applied to one value.
MaxOps == 2

(***************************************************************************)
(* Builds and types                                                        *)
(***************************************************************************)

\* #ifdef _MSC_VER / #elif defined(__GNUC__) / #else, the two BDN_STD_*_MISSING
\* switches of bdn/config.h, and sizeof(long) (4 under MSVC, 8 under LP64).
\* isFinite names MscNumberUtilHelper_ under BDN_STD_ISFINITE_INT_MISSING while
\* the helper is declared under BDN_STD_ISNAN_INT_MISSING, so a configuration
\* with only the former set does not compile and is no build.
Builds ==
    { [compiler |-> "msc",   longBytes |-> 4, BDN_STD_ISNAN_INT_MISSING |-> TRUE,  BDN_STD_ISFINITE_INT_MISSING |-> TRUE],
      [compiler |-> "gnuc",  longBytes |-> 8, BDN_STD_ISNAN_INT_MISSING |-> FALSE, BDN_STD_ISFINITE_INT_MISSING |-> FALSE],
      [compiler |-> "other", longBytes |-> 8, BDN_STD_ISNAN_INT_MISSING |-> FALSE, BDN_STD_ISFINITE_INT_MISSING |-> FALSE] }

SignedTypes == {"signed char", "short", "int", "long", "long long"}

UnsignedTypes == {"unsigned char", "unsigned short", "unsigned int", "unsigned long", "unsigned long long"}

IntTypes == SignedTypes \cup UnsignedTypes

FloatTypes == {"float", "double", "long double"}

\* std::numeric_limits<BaseType>::is_integer
isInteger(t) == t \in IntTypes

\* std::numeric_limits<BaseType>::is_signed
isSigned(t) == t \in SignedTypes \cup FloatTypes

\* sizeof(t) for the integer types, in bytes
SizeOf(t, b) ==
    CASE t \in {"signed char", "unsigned char"} -> 1
      [] t \in {"short", "unsigned short"} -> 2
      [] t \in {"int", "unsigned int"} -> 4
      [] t \in {"long", "unsigned long"} -> b.longBytes
      [] t \in {"long long", "unsigned long long"} -> 8

BitWidth(t, b) == 8 * SizeOf(t, b)

(***************************************************************************)
(* Bit sets                                                                *)
(***************************************************************************)

Zero == {}

AllOnes(n) == 0..(n - 1)

\* The value written as its bytes, most significant first (0x1234 is <<18, 52>>).
FromBytes(bs) ==
    {i \in 0..(8 * Len(bs) - 1) : (bs[Len(bs) - (i \div 8)] \div (2 ^ (i % 8))) % 2 = 1}

Bit(a, i) == IF i \in a THEN 1 ELSE 0

\* The bytes of an n-bit value, most significant first.
ToBytes(a, n) ==
    [j \in 1..(n \div 8) |->
        LET lo == n - 8 * j
        IN  Bit(a, lo) + 2 * Bit(a, lo + 1) + 4 * Bit(a, lo + 2) + 8 * Bit(a, lo + 3)
            + 16 * Bit(a, lo + 4) + 32 * Bit(a, lo + 5) + 64 * Bit(a, lo + 6)
            + 128 * Bit(a, lo + 7)]

\* a << k and a >> k on n bits, for a count the language defines (0 <= k < n)
Shl(a, k, n) == {i + k : i \in {j \in a : j + k < n}}

Shr(a, k, n) == {i - k : i \in {j \in a : j >= k}}

BitOr(a, b) == a \cup b

BitAnd(a, b) == a \cap b

\* The literal 0xff << (8 * j): the mask of byte j (byte 0 the least significant).
ByteMask(j) == (8 * j)..(8 * j + 7)

\* Conversion of an n-bit integer to m bits: the low bits are kept, and a wider
\* target is filled with the sign bit of a signed source and with 0 of an
\* unsigned one.
Convert(a, n, fromSigned, m) ==
    IF m <= n THEN {i \in a : i < m}
    ELSE a \cup (IF fromSigned /\ (n - 1) \in a THEN n..(m - 1) ELSE {})

\* The built-in << and >> of an n-bit operand.  A count that is negative or not
\* below n is undefined behaviour: the builds differ in what comes out (the
\* count taken modulo n as the x86 shifts do, every bit shifted out as on ARM
\* or when GCC folds the constant, or no particular value once the optimiser
\* treats the expression as undefined, for which all-ones stands).
ShiftLeft(a, k, n) ==
    IF 0 <= k /\ k < n THEN {Shl(a, k, n)}
    ELSE {Shl(a, k % n, n), Zero, AllOnes(n)}

ShiftRight(a, k, n) ==
    IF 0 <= k /\ k < n THEN {Shr(a, k, n)}
    ELSE {Shr(a, k % n, n), Zero, AllOnes(n)}

(***************************************************************************)
(* Compiler intrinsics (the _MSC_VER and __GNUC__ branches)                *)
(***************************************************************************)

Reverse(s) == [j \in 1..Len(s) |-> s[Len(s) + 1 - j]]

\* Bits rotated off one end come back at the other; the count is taken modulo n.
RotateLeftBits(a, k, n) == {(i + k) % n : i \in a}

RotateRightBits(a, k, n) == {(i + n - (k % n)) % n : i \in a}

_rotl(val, shift) == RotateLeftBits(val, shift, 32)

_rotr(val, shift) == RotateRightBits(val, shift, 32)

_rotl64(val, shift) == RotateLeftBits(val, shift, 64)

_rotr64(val, shift) == RotateRightBits(val, shift, 64)

_byteswap_ushort(val) == FromBytes(Reverse(ToBytes(val, 16)))

_byteswap_ulong(val) == FromBytes(Reverse(ToBytes(val, 32)))

_byteswap_uint64(val) == FromBytes(Reverse(ToBytes(val, 64)))

__builtin_bswap16(val) == FromBytes(Reverse(ToBytes(val, 16)))

__builtin_bswap32(val) == FromBytes(Reverse(ToBytes(val, 32)))

__builtin_bswap64(val) == FromBytes(Reverse(ToBytes(val, 64)))

(***************************************************************************)
(* _IntOpImpl<byteCount>.  The rotations give the set of values a call can *)
(* return: one value wherever the language defines the shifts.             *)
(***************************************************************************)

\* uint8_t and uint16_t operands are promoted to int (32 bits) before << and >>,
\* and the int result is converted to the return type.  For counts up to the
\* operand's width the shifted value fits 32 bits and both shifts are defined.
IntOpImpl1_rotateBitsLeftImpl(val, bits) ==
    LET p == Convert(val, 8, FALSE, 32)
    IN  { Convert(BitOr(lr[1], lr[2]), 32, TRUE, 8) :
            lr \in ShiftLeft(p, bits, 32) \X ShiftRight(p, 8 - bits, 32) }

IntOpImpl1_rotateBitsRightImpl(val, bits) ==
    LET p == Convert(val, 8, FALSE, 32)
    IN  { Convert(BitOr(rl[1], rl[2]), 32, TRUE, 8) :
            rl \in ShiftRight(p, bits, 32) \X ShiftLeft(p, 8 - bits, 32) }

IntOpImpl1_invertByteOrderImpl(val) == val

\* Variant with a fault: the 32-bit form's count, val >> (32 - bits).
IntOpImpl2_rotateBitsLeftImpl_shift32(val, bits) ==
    LET p == Convert(val, 16, FALSE, 32)
    IN  { Convert(BitOr(lr[1], lr[2]), 32, TRUE, 16) :
            lr \in ShiftLeft(p, bits, 32) \X ShiftRight(p, 32 - bits, 32) }

IntOpImpl2_rotateBitsLeftImpl(val, bits) ==
    LET p == Convert(val, 16, FALSE, 32)
    IN  { Convert(BitOr(lr[1], lr[2]), 32, TRUE, 16) :
            lr \in ShiftLeft(p, bits, 32) \X ShiftRight(p, 16 - bits, 32) }

IntOpImpl2_rotateBitsRightImpl(val, bits) ==
    LET p == Convert(val, 16, FALSE, 32)
    IN  { Convert(BitOr(rl[1], rl[2]), 32, TRUE, 16) :
            rl \in ShiftRight(p, bits, 32) \X ShiftLeft(p, 16 - bits, 32) }

\* Variant with a fault: the high byte is masked but not shifted down.
IntOpImpl2_invertByteOrderFallback_noShiftBack(val) ==
    LET p == Convert(val, 16, FALSE, 32)
    IN  Convert(BitOr(Shl(BitAnd(p, ByteMask(0)), 8, 32),
                      BitAnd(p, ByteMask(1))), 32, TRUE, 16)

\* (val & 0xff) << 8 | (val & 0xff00) >> 8, computed in int
IntOpImpl2_invertByteOrderFallback(val) ==
    LET p == Convert(val, 16, FALSE, 32)
    IN  Convert(BitOr(Shl(BitAnd(p, ByteMask(0)), 8, 32),
                      Shr(BitAnd(p, ByteMask(1)), 8, 32)), 32, TRUE, 16)

IntOpImpl2_invertByteOrderImpl(val, b) ==
    CASE b.compiler = "msc" -> _byteswap_ushort(val)
      [] b.compiler = "gnuc" -> __builtin_bswap16(val)
      [] OTHER -> IntOpImpl2_invertByteOrderFallback(val)

IntOpImpl4_rotateBitsLeftFallback(val, bits) ==
    { BitOr(lr[1], lr[2]) : lr \in ShiftLeft(val, bits, 32) \X ShiftRight(val, 32 - bits, 32) }

IntOpImpl4_rotateBitsLeftImpl(val, bits, b) ==
    IF b.compiler = "msc" THEN {_rotl(val, bits)}
    ELSE IntOpImpl4_rotateBitsLeftFallback(val, bits)

IntOpImpl4_rotateBitsRightFallback(val, bits) ==
    { BitOr(rl[1], rl[2]) : rl \in ShiftRight(val, bits, 32) \X ShiftLeft(val, 32 - bits, 32) }

IntOpImpl4_rotateBitsRightImpl(val, bits, b) ==
    IF b.compiler = "msc" THEN {_rotr(val, bits)}
    ELSE IntOpImpl4_rotateBitsRightFallback(val, bits)

\* (val & 0xff) << 24 | (val & 0xff00) << 8 | (val & 0xff0000) >> 8 | (val & 0xff000000) >> 24
IntOpImpl4_invertByteOrderFallback(val) ==
    BitOr(BitOr(Shl(BitAnd(val, ByteMask(0)), 24, 32),
                Shl(BitAnd(val, ByteMask(1)), 8, 32)),
          BitOr(Shr(BitAnd(val, ByteMask(2)), 8, 32),
                Shr(BitAnd(val, ByteMask(3)), 24, 32)))

IntOpImpl4_invertByteOrderImpl(val, b) ==
    CASE b.compiler = "msc" -> _byteswap_ulong(val)
      [] b.compiler = "gnuc" -> __builtin_bswap32(val)
      [] OTHER -> IntOpImpl4_invertByteOrderFallback(val)

IntOpImpl8_rotateBitsLeftFallback(val, bits) ==
    { BitOr(lr[1], lr[2]) : lr \in ShiftLeft(val, bits, 64) \X ShiftRight(val, 64 - bits, 64) }

IntOpImpl8_rotateBitsLeftImpl(val, bits, b) ==
    IF b.compiler = "msc" THEN {_rotl64(val, bits)}
    ELSE IntOpImpl8_rotateBitsLeftFallback(val, bits)

IntOpImpl8_rotateBitsRightFallback(val, bits) ==
    { BitOr(rl[1], rl[2]) : rl \in ShiftRight(val, bits, 64) \X ShiftLeft(val, 64 - bits, 64) }

IntOpImpl8_rotateBitsRightImpl(val, bits, b) ==
    IF b.compiler = "msc" THEN {_rotr64(val, bits)}
    ELSE IntOpImpl8_rotateBitsRightFallback(val, bits)

\* Variant with a fault: the top byte is shifted down by 48 instead of 56.
IntOpImpl8_invertByteOrderFallback_shift48(val) ==
    LET byte(j) == BitAnd(val, ByteMask(j))
        low  == BitOr(BitOr(Shl(byte(0), 56, 64), Shl(byte(1), 40, 64)),
                      BitOr(Shl(byte(2), 24, 64), Shl(byte(3), 8, 64)))
        high == BitOr(BitOr(Shr(byte(4), 8, 64), Shr(byte(5), 24, 64)),
                      BitOr(Shr(byte(6), 40, 64), Shr(byte(7), 48, 64)))
    IN  BitOr(low, high)

\* The eight masked bytes of the fallback, each shifted to its mirrored place.
IntOpImpl8_invertByteOrderFallback(val) ==
    LET byte(j) == BitAnd(val, ByteMask(j))
        low  == BitOr(BitOr(Shl(byte(0), 56, 64), Shl(byte(1), 40, 64)),
                      BitOr(Shl(byte(2), 24, 64), Shl(byte(3), 8, 64)))
        high == BitOr(BitOr(Shr(byte(4), 8, 64), Shr(byte(5), 24, 64)),
                      BitOr(Shr(byte(6), 40, 64), Shr(byte(7), 56, 64)))
    IN  BitOr(low, high)

IntOpImpl8_invertByteOrderImpl(val, b) ==
    CASE b.compiler = "msc" -> _byteswap_uint64(val)
      [] b.compiler = "gnuc" -> __builtin_bswap64(val)
      [] OTHER -> IntOpImpl8_invertByteOrderFallback(val)

(***************************************************************************)
(* The generic functions: dispatch on sizeof(ArgIntType), the argument     *)
(* converted to the unsigned type of that width and the result cast back.  *)
(***************************************************************************)

invertByteOrder(t, value, b) ==
    LET n == BitWidth(t, b)
        u == Convert(value, n, isSigned(t), n)
        r == CASE n = 8  -> IntOpImpl1_invertByteOrderImpl(u)
               [] n = 16 -> IntOpImpl2_invertByteOrderImpl(u, b)
               [] n = 32 -> IntOpImpl4_invertByteOrderImpl(u, b)
               [] n = 64 -> IntOpImpl8_invertByteOrderImpl(u, b)
    IN  Convert(r, n, FALSE, n)

rotateBitsLeft(t, value, bits, b) ==
    LET n == BitWidth(t, b)
        u == Convert(value, n, isSigned(t), n)
        rs == CASE n = 8  -> IntOpImpl1_rotateBitsLeftImpl(u, bits)
                [] n = 16 -> IntOpImpl2_rotateBitsLeftImpl(u, bits)
                [] n = 32 -> IntOpImpl4_rotateBitsLeftImpl(u, bits, b)
                [] n = 64 -> IntOpImpl8_rotateBitsLeftImpl(u, bits, b)
    IN  { Convert(r, n, FALSE, n) : r \in rs }

rotateBitsRight(t, value, bits, b) ==
    LET n == BitWidth(t, b)
        u == Convert(value, n, isSigned(t), n)
        rs == CASE n = 8  -> IntOpImpl1_rotateBitsRightImpl(u, bits)
                [] n = 16 -> IntOpImpl2_rotateBitsRightImpl(u, bits)
                [] n = 32 -> IntOpImpl4_rotateBitsRightImpl(u, bits, b)
                [] n = 64 -> IntOpImpl8_rotateBitsRightImpl(u, bits, b)
    IN  { Convert(r, n, FALSE, n) : r \in rs }

(***************************************************************************)
(* Built-in arithmetic of the base types                                   *)
(***************************************************************************)

Float(cls, neg, mag) == [cls |-> cls, neg |-> neg, mag |-> mag]

\* The literal 0 converted to t
ZeroOf(t) == IF isInteger(t) THEN Zero ELSE Float("num", FALSE, 0)

IsNaNValue(t, v) == ~isInteger(t) /\ v.cls = "nan"

\* Position of a floating point value on the extended real line (not for NaN):
\* -0.0 and +0.0 share 0, the infinities lie beyond the finite ranks.
FloatKey(v) ==
    LET m == IF v.cls = "inf" THEN 5 ELSE v.mag
    IN  IF v.neg THEN 0 - m ELSE m

Max(S) == CHOOSE m \in S : \A e \in S : e <= m

\* a < c for two unsigned integers: the highest bit they differ in is set in c.
UnsignedLess(a, c) ==
    LET d == (a \ c) \cup (c \ a)
    IN  d # {} /\ Max(d) \in c

\* a < c for two integers of type t (n bits)
IntLess(t, a, c, n) ==
    IF isSigned(t) /\ ((n - 1) \in a) # ((n - 1) \in c)
    THEN (n - 1) \in a
    ELSE UnsignedLess(a, c)

\* The built-in comparisons of two values of type t; every ordered comparison
\* and == is false, and != true, when a floating point operand is a NaN.
RawEq(t, a, c, b) ==
    IF isInteger(t) THEN a = c
    ELSE a.cls # "nan" /\ c.cls # "nan" /\ FloatKey(a) = FloatKey(c)

RawLess(t, a, c, b) ==
    IF isInteger(t) THEN IntLess(t, a, c, BitWidth(t, b))
    ELSE a.cls # "nan" /\ c.cls # "nan" /\ FloatKey(a) < FloatKey(c)

\* Implicit conversion of an argument of type argT to t.  Floating point
\* arguments are only passed as t itself.
ConvertArg(argT, val, t, b) ==
    IF isInteger(t) THEN Convert(val, BitWidth(argT, b), isSigned(argT), BitWidth(t, b))
    ELSE val

(***************************************************************************)
(* The standard library                                                    *)
(***************************************************************************)

\* std::numeric_limits<t>::max(), min() and lowest()
NumericLimitsMax(t, b) ==
    CASE t \in SignedTypes -> AllOnes(BitWidth(t, b) - 1)
      [] t \in UnsignedTypes -> AllOnes(BitWidth(t, b))
      [] OTHER -> Float("num", FALSE, 4)

NumericLimitsMin(t, b) ==
    CASE t \in SignedTypes -> {BitWidth(t, b) - 1}
      [] t \in UnsignedTypes -> Zero
      [] OTHER -> Float("num", FALSE, 2)

NumericLimitsLowest(t, b) ==
    CASE t \in SignedTypes -> {BitWidth(t, b) - 1}
      [] t \in UnsignedTypes -> Zero
      [] OTHER -> Float("num", TRUE, 4)

\* The conversion of an integer to double that the integer overloads of
\* std::isnan and std::isfinite make: every integer is a finite double.
IntToDouble(t, v, b) ==
    IF v = Zero THEN Float("num", FALSE, 0)
    ELSE Float("num", isSigned(t) /\ (BitWidth(t, b) - 1) \in v, 3)

StdIsNan(t, v, b) ==
    LET d == IF isInteger(t) THEN IntToDouble(t, v, b) ELSE v
    IN  d.cls = "nan"

StdIsFinite(t, v, b) ==
    LET d == IF isInteger(t) THEN IntToDouble(t, v, b) ELSE v
    IN  d.cls = "num"

\* std::hash<t>: an integer hashes to itself converted to size_t, +0.0 and -0.0
\* to 0 and any other floating point value to a hash of its representation.
StdHash(t, v, b) ==
    IF isInteger(t) THEN Convert(v, BitWidth(t, b), isSigned(t), 64)
    ELSE IF v.cls = "num" /\ v.mag = 0 THEN Zero
    ELSE [hashOf |-> t, bytes |-> v]

(***************************************************************************)
(* Number<BaseType>                                                        *)
(***************************************************************************)

\* Number(BaseType value = 0) : _value(value)
Number(value) == value

maxValue(t, b) == NumericLimitsMax(t, b)

\* Variant with a fault: std::numeric_limits<BaseType>::min() for lowest().
minValue_numericLimitsMin(t, b) == NumericLimitsMin(t, b)

minValue(t, b) == NumericLimitsLowest(t, b)

getValue(this) == this

\* Variant with a fault: the argument goes to a local that shadows the member,
\* which keeps its value.
setValue_shadowed(t, argT, val, b) == _value

\* _value = std::forward<ArgType>(val)
setValue(t, argT, val, b) == ConvertArg(argT, val, t, b)

operatorAssign(t, argT, arg, b) == ConvertArg(argT, arg, t, b)

operatorBaseType(this) == this

operatorEq(t, this, otherValue, b) == RawEq(t, this, otherValue, b)

operatorNe(t, this, otherValue, b) == ~RawEq(t, this, otherValue, b)

\* Variant with a fault: < written as <=.
operatorLt_orEqual(t, this, otherValue, b) ==
    RawLess(t, this, otherValue, b) \/ RawEq(t, this, otherValue, b)

operatorLt(t, this, otherValue, b) == RawLess(t, this, otherValue, b)

operatorLe(t, this, otherValue, b) ==
    RawLess(t, this, otherValue, b) \/ RawEq(t, this, otherValue, b)

operatorGt(t, this, otherValue, b) == RawLess(t, otherValue, this, b)

operatorGe(t, this, otherValue, b) ==
    RawLess(t, otherValue, this, b) \/ RawEq(t, this, otherValue, b)

(***************************************************************************)
(* isNan, isFinite and std::hash<Number<BaseType>>                         *)
(***************************************************************************)

\* Variant with a fault: the generic isNan returns what the generic isFinite does.
MscNumberUtilHelper_isNan_returnsTrue(isFloatingPoint, t, value, b) ==
    IF isFloatingPoint THEN StdIsNan(t, value, b) ELSE TRUE

MscNumberUtilHelper_isNan(isFloatingPoint, t, value, b) ==
    IF isFloatingPoint THEN StdIsNan(t, value, b) ELSE FALSE

MscNumberUtilHelper_isFinite(isFloatingPoint, t, value, b) ==
    IF isFloatingPoint THEN StdIsFinite(t, value, b) ELSE TRUE

isNan(t, value, b) ==
    IF b.BDN_STD_ISNAN_INT_MISSING
    THEN MscNumberUtilHelper_isNan(~isInteger(t), t, value, b)
    ELSE StdIsNan(t, value, b)

isFinite(t, value, b) ==
    IF b.BDN_STD_ISFINITE_INT_MISSING
    THEN MscNumberUtilHelper_isFinite(~isInteger(t), t, value, b)
    ELSE StdIsFinite(t, value, b)

\* Variant with a fault: the signed char specialisation hashes with
\* std::hash<unsigned char>.
NumberHash_unsignedKey(t, key, b) ==
    StdHash(IF t = "signed char" THEN "unsigned char" ELSE t, getValue(key), b)

\* std::hash<bdn::Number<t>>::operator()(key)
NumberHash(t, key, b) == StdHash(t, getValue(key), b)

(***************************************************************************)
(* The bit operations applied in chains to sample values                   *)
(***************************************************************************)

\* Values of each width the operations are tried on, as bytes.
Samples(n) ==
    CASE n = 8  -> {FromBytes(<<0>>), FromBytes(<<18>>), FromBytes(<<129>>), FromBytes(<<240>>)}
      [] n = 16 -> {FromBytes(<<0, 0>>), FromBytes(<<18, 52>>), FromBytes(<<240, 0>>), FromBytes(<<0, 15>>)}
      [] n = 32 -> {FromBytes(<<0, 0, 0, 0>>), FromBytes(<<17, 34, 51, 68>>),
                    FromBytes(<<128, 0, 0, 1>>), FromBytes(<<240, 0, 0, 15>>)}
      [] n = 64 -> {FromBytes(<<0, 0, 0, 0, 0, 0, 0, 0>>), FromBytes(<<1, 2, 3, 4, 5, 6, 7, 8>>),
                    FromBytes(<<128, 0, 0, 0, 0, 0, 0, 1>>), FromBytes(<<254, 220, 186, 152, 118, 84, 50, 16>>)}

\* Rotation counts tried at width n: both ends of the allowed range 0..n,
\* their neighbours and a count inside.
Counts(n) == {0, 1, 4, n - 1, n}

NoCall == [op |-> "none"]

InitBitOps ==
    /\ build \in Builds
    /\ T \in IntTypes
    /\ x \in Samples(BitWidth(T, build))
    /\ hist = <<>>
    /\ _value = Zero
    /\ assigned = [by |-> "default", type |-> T, value |-> Zero]
    /\ ret = NoCall

CallInvertByteOrder ==
    /\ Len(hist) < MaxOps
    /\ LET r == invertByteOrder(T, x, build)
       IN  /\ x' = r
           /\ hist' = Append(hist, [op |-> "invertByteOrder", bits |-> 0, in |-> x, out |-> r])
    /\ UNCHANGED <<build, T, _value, assigned, ret>>

CallRotateBitsLeft ==
    /\ Len(hist) < MaxOps
    /\ \E k \in Counts(BitWidth(T, build)) :
         \E r \in rotateBitsLeft(T, x, k, build) :
            /\ x' = r
            /\ hist' = Append(hist, [op |-> "rotateBitsLeft", bits |-> k, in |-> x, out |-> r])
    /\ UNCHANGED <<build, T, _value, assigned, ret>>

CallRotateBitsRight ==
    /\ Len(hist) < MaxOps
    /\ \E k \in Counts(BitWidth(T, build)) :
         \E r \in rotateBitsRight(T, x, k, build) :
            /\ x' = r
            /\ hist' = Append(hist, [op |-> "rotateBitsRight", bits |-> k, in |-> x, out |-> r])
    /\ UNCHANGED <<build, T, _value, assigned, ret>>

NextBitOps == CallInvertByteOrder \/ CallRotateBitsLeft \/ CallRotateBitsRight

Spec == InitBitOps /\ [][NextBitOps]_vars

(***************************************************************************)
(* Properties of the bit operations                                        *)
(***************************************************************************)

Rotations == {"rotateBitsLeft", "rotateBitsRight"}

Width == BitWidth(T, build)

\* Call i+1 of the chain undoes call i: a rotation one way and then the other
\* way by the same count.
IsRoundTrip(i) ==
    /\ hist[i].op \in Rotations
    /\ hist[i + 1].op \in Rotations \ {hist[i].op}
    /\ hist[i].bits = hist[i + 1].bits

\* C1: for every integer type, value v and count 0 <= k < bit width, rotating
\* right by k and then left by k gives v back, and so does left and then right.
C1_RoundTrip ==
    \A i \in 1..(Len(hist) - 1) :
        (IsRoundTrip(i) /\ hist[i].bits < Width) => hist[i + 1].out = hist[i].in

\* C2: at every width both rotations return v unchanged for the count 0 and
\* for the count equal to the full bit width.
C2_ZeroAndFullWidth ==
    \A i \in 1..Len(hist) :
        (hist[i].op \in Rotations /\ hist[i].bits \in {0, Width}) => hist[i].out = hist[i].in

\* The value of n bits whose byte sequence is that of a reversed.
ReversedBytes(a, n) == {8 * ((n \div 8) - 1 - (i \div 8)) + (i % 8) : i \in a}

\* C3: invertByteOrder returns the value whose byte sequence is that of its
\* argument reversed, for signed and unsigned types of 1, 2, 4 and 8 bytes
\* (the identity at 1 byte); 0x1234 gives 0x3412, 0x11223344 gives 0x44332211,
\* 0x0102030405060708 gives 0x0807060504030201 and 0 gives 0.
C3_InvertByteOrderReverses ==
    \A i \in 1..Len(hist) :
        hist[i].op = "invertByteOrder" =>
            /\ hist[i].out = ReversedBytes(hist[i].in, Width)
            /\ ToBytes(hist[i].out, Width) = Reverse(ToBytes(hist[i].in, Width))
            /\ Width = 8 => hist[i].out = hist[i].in
            /\ hist[i].in = FromBytes(<<18, 52>>) /\ Width = 16
                  => hist[i].out = FromBytes(<<52, 18>>)
            /\ hist[i].in = FromBytes(<<17, 34, 51, 68>>) /\ Width = 32
                  => hist[i].out = FromBytes(<<68, 51, 34, 17>>)
            /\ hist[i].in = FromBytes(<<1, 2, 3, 4, 5, 6, 7, 8>>) /\ Width = 64
                  => hist[i].out = FromBytes(<<8, 7, 6, 5, 4, 3, 2, 1>>)
            /\ hist[i].in = Zero => hist[i].out = Zero

\* The shift-and-mask fallback has swapped 0x0102030405060708 at 8 bytes.
C3_Witness ==
    /\ build.compiler = "other"
    /\ T = "long long"
    /\ Len(hist) >= 1
    /\ hist[1] = [op |-> "invertByteOrder", bits |-> 0,
                  in |-> FromBytes(<<1, 2, 3, 4, 5, 6, 7, 8>>),
                  out |-> FromBytes(<<8, 7, 6, 5, 4, 3, 2, 1>>)]

\* C4: invertByteOrder applied twice gives the value back.
C4_InvertByteOrderInvolution ==
    \A i \in 1..(Len(hist) - 1) :
        (hist[i].op = "invertByteOrder" /\ hist[i + 1].op = "invertByteOrder")
            => hist[i + 1].out = hist[i].in

\* Two byte swaps in a row by the 2-byte fallback, of a value the swap changes.
C4_Witness ==
    /\ build.compiler = "other"
    /\ T = "short"
    /\ Len(hist) = 2
    /\ hist[1].op = "invertByteOrder" /\ hist[2].op = "invertByteOrder"
    /\ hist[1].out # hist[1].in
    /\ hist[2].out = hist[1].in

IntrinsicResults(op, val, bits, n) ==
    CASE op = "rotateBitsLeft"  /\ n = 32 -> {_rotl(val, bits)}
      [] op = "rotateBitsLeft"  /\ n = 64 -> {_rotl64(val, bits)}
      [] op = "rotateBitsRight" /\ n = 32 -> {_rotr(val, bits)}
      [] op = "rotateBitsRight" /\ n = 64 -> {_rotr64(val, bits)}
      [] op = "invertByteOrder" /\ n = 16 -> {_byteswap_ushort(val), __builtin_bswap16(val)}
      [] op = "invertByteOrder" /\ n = 32 -> {_byteswap_ulong(val), __builtin_bswap32(val)}
      [] op = "invertByteOrder" /\ n = 64 -> {_byteswap_uint64(val), __builtin_bswap64(val)}
      [] OTHER -> {}

\* What the shift-and-mask code of the #else branches can return for the call.
FallbackResults(op, val, bits, n) ==
    CASE op = "rotateBitsLeft"  /\ n = 32 -> IntOpImpl4_rotateBitsLeftFallback(val, bits)
      [] op = "rotateBitsLeft"  /\ n = 64 -> IntOpImpl8_rotateBitsLeftFallback(val, bits)
      [] op = "rotateBitsRight" /\ n = 32 -> IntOpImpl4_rotateBitsRightFallback(val, bits)
      [] op = "rotateBitsRight" /\ n = 64 -> IntOpImpl8_rotateBitsRightFallback(val, bits)
      [] op = "invertByteOrder" /\ n = 16 -> {IntOpImpl2_invertByteOrderFallback(val)}
      [] op = "invertByteOrder" /\ n = 32 -> {IntOpImpl4_invertByteOrderFallback(val)}
      [] op = "invertByteOrder" /\ n = 64 -> {IntOpImpl8_invertByteOrderFallback(val)}
      [] OTHER -> {}

\* C11: at 2, 4 and 8 bytes, for every value and every count 0 <= k <= bit
\* width, the intrinsic and the shift-and-mask fallback of rotate-left,
\* rotate-right and byte swap return the same value: whatever either can return
\* for the arguments of a call is what the call returned.
C11_IntrinsicEqualsFallback ==
    \A i \in 1..Len(hist) :
        LET h == hist[i]
            intrinsic == IntrinsicResults(h.op, h.in, h.bits, Width)
            fallback  == FallbackResults(h.op, h.in, h.bits, Width)
        IN  (Width \in {16, 32, 64} /\ 0 <= h.bits /\ h.bits <= Width /\ intrinsic # {}) =>
                \A r \in intrinsic \cup fallback : r = h.out

(***************************************************************************)
(* A Number<T> object constructed, assigned to and observed                *)
(***************************************************************************)

\* Values of type t handed to the wrapper and to the predicates: for an
\* integer type 0, a value with distinct bytes, -1 (the greatest value of an
\* unsigned type) and the value with only the top bit set.
NumberSamples(t, b) ==
    IF isInteger(t)
    THEN LET n == BitWidth(t, b)
             v == CASE n = 8  -> FromBytes(<<18>>)
                    [] n = 16 -> FromBytes(<<18, 52>>)
                    [] n = 32 -> FromBytes(<<17, 34, 51, 68>>)
                    [] n = 64 -> FromBytes(<<1, 2, 3, 4, 5, 6, 7, 8>>)
         IN  {Zero, v, AllOnes(n), {n - 1}}
    ELSE { Float("num", FALSE, 0), Float("num", TRUE, 0), Float("num", TRUE, 3),
           Float("num", FALSE, 4), Float("inf", FALSE, 0), Float("nan", FALSE, 0) }

\* The types of the arguments handed to setValue and operator=: t itself, and
\* for an integer t an integer type of another width.
ArgTypes(t) ==
    CASE t \in {"long long", "unsigned long long"} -> {t, "signed char"}
      [] t \in IntTypes -> {t, "long long"}
      [] OTHER -> {t}

Comparisons == {"operator==", "operator!=", "operator<", "operator<=", "operator>", "operator>="}

Compare(op, t, this, otherValue, b) ==
    CASE op = "operator==" -> operatorEq(t, this, otherValue, b)
      [] op = "operator!=" -> operatorNe(t, this, otherValue, b)
      [] op = "operator<"  -> operatorLt(t, this, otherValue, b)
      [] op = "operator<=" -> operatorLe(t, this, otherValue, b)
      [] op = "operator>"  -> operatorGt(t, this, otherValue, b)
      [] op = "operator>=" -> operatorGe(t, this, otherValue, b)

InitNumber ==
    /\ build \in Builds
    /\ T \in IntTypes \cup FloatTypes
    /\ x = Zero
    /\ hist = <<>>
    /\ \/ /\ _value = Number(ZeroOf(T))
          /\ assigned = [by |-> "default", type |-> T, value |-> ZeroOf(T)]
       \/ \E v \in NumberSamples(T, build) :
             /\ _value = Number(v)
             /\ assigned = [by |-> "constructor", type |-> T, value |-> v]
    /\ ret = NoCall

CallSetValue ==
    /\ \E argT \in ArgTypes(T) : \E val \in NumberSamples(argT, build) :
          /\ _value' = setValue(T, argT, val, build)
          /\ assigned' = [by |-> "setValue", type |-> argT, value |-> val]
    /\ ret' = NoCall
    /\ UNCHANGED <<build, T, hist, x>>

CallOperatorAssign ==
    /\ \E argT \in ArgTypes(T) : \E arg \in NumberSamples(argT, build) :
          /\ _value' = operatorAssign(T, argT, arg, build)
          /\ assigned' = [by |-> "operator=", type |-> argT, value |-> arg]
    /\ ret' = NoCall
    /\ UNCHANGED <<build, T, hist, x>>

CallGetValue ==
    /\ ret' = [op |-> "getValue", value |-> getValue(_value)]
    /\ UNCHANGED <<build, T, hist, x, _value, assigned>>

CallOperatorBaseType ==
    /\ ret' = [op |-> "operator BaseType", value |-> operatorBaseType(_value)]
    /\ UNCHANGED <<build, T, hist, x, _value, assigned>>

CallCompare ==
    /\ \E op \in Comparisons : \E w \in NumberSamples(T, build) :
          ret' = [op |-> op, arg |-> w, value |-> Compare(op, T, _value, w, build)]
    /\ UNCHANGED <<build, T, hist, x, _value, assigned>>

CallMinValue ==
    /\ ret' = [op |-> "minValue", value |-> minValue(T, build)]
    /\ UNCHANGED <<build, T, hist, x, _value, assigned>>

CallMaxValue ==
    /\ ret' = [op |-> "maxValue", value |-> maxValue(T, build)]
    /\ UNCHANGED <<build, T, hist, x, _value, assigned>>

CallHash ==
    /\ ret' = [op |-> "std::hash", value |-> NumberHash(T, _value, build)]
    /\ UNCHANGED <<build, T, hist, x, _value, assigned>>

CallIsNan ==
    /\ \E v \in NumberSamples(T, build) :
          ret' = [op |-> "isNan", arg |-> v, value |-> isNan(T, v, build)]
    /\ UNCHANGED <<build, T, hist, x, _value, assigned>>

CallIsFinite ==
    /\ \E v \in NumberSamples(T, build) :
          ret' = [op |-> "isFinite", arg |-> v, value |-> isFinite(T, v, build)]
    /\ UNCHANGED <<build, T, hist, x, _value, assigned>>

NextNumber ==
    \/ CallSetValue
    \/ CallOperatorAssign
    \/ CallGetValue
    \/ CallOperatorBaseType
    \/ CallCompare
    \/ CallMinValue
    \/ CallMaxValue
    \/ CallHash
    \/ CallIsNan
    \/ CallIsFinite

SpecNumber == InitNumber /\ [][NextNumber]_vars

(***************************************************************************)
(* Properties of Number<T>, the predicates and the hash                    *)
(***************************************************************************)

\* The value the object wraps: the raw argument it was last given, as a T.
Wrapped == ConvertArg(assigned.type, assigned.value, T, build)

\* An integer of any of the types as a 72-bit two's complement number, in which
\* every value of every type has room.
Widen(t, v) == Convert(v, BitWidth(t, build), isSigned(t), 72)

\* Order of two widened integers
WideLess(a, c) == IF (71 \in a) # (71 \in c) THEN 71 \in a ELSE UnsignedLess(a, c)

\* The two values are the same number.
SameNumber(t1, v1, t2, v2) ==
    IF isInteger(t1) THEN Widen(t1, v1) = Widen(t2, v2) ELSE v1 = v2

\* The value v of type argT lies in the range of t.
Representable(argT, v, t) ==
    IF isInteger(t)
    THEN /\ ~WideLess(Widen(argT, v), Widen(t, NumericLimitsLowest(t, build)))
         /\ ~WideLess(Widen(t, NumericLimitsMax(t, build)), Widen(argT, v))
    ELSE TRUE

\* C6: for every base type with a std::hash specialisation of Number<T> and
\* every value x, the hash of Number<T>{x} is the hash of the raw x.
C6_HashOfNumberIsHashOfRaw ==
    ret.op = "std::hash" => ret.value = StdHash(T, Wrapped, build)

\* Number<signed char>{-1} hashed: size_t(-1), as std::hash<signed char> gives.
C6_Witness ==
    /\ T = "signed char"
    /\ assigned = [by |-> "constructor", type |-> T, value |-> AllOnes(8)]
    /\ ret = [op |-> "std::hash", value |-> AllOnes(64)]

Accessors == {"getValue", "operator BaseType"}

\* C7 as stated: after construction (the default giving 0), setValue and
\* assignment, getValue() and the conversion to T return exactly the value
\* last assigned, for any assigned value convertible to T.
C7_ReturnsExactlyAssigned ==
    ret.op \in Accessors => SameNumber(T, ret.value, assigned.type, assigned.value)

\* C7 amended: getValue() and the conversion to T return the value last
\* assigned converted to T, which is that very value whenever it lies in the
\* range of T, and 0 after default construction.
C7_ReturnsAssignedConverted ==
    ret.op \in Accessors =>
        /\ ret.value = Wrapped
        /\ Representable(assigned.type, assigned.value, T)
              => SameNumber(T, ret.value, assigned.type, assigned.value)
        /\ assigned.by = "default" => ret.value = ZeroOf(T)

\* A long long -1 stored by setValue in a Number<int> and read back as int -1.
C7_Witness ==
    /\ T = "int"
    /\ assigned = [by |-> "setValue", type |-> "long long", value |-> AllOnes(64)]
    /\ ret = [op |-> "getValue", value |-> AllOnes(32)]

\* The built-in comparison of two raw values of type T
RawCompare(op, v, w) ==
    CASE op = "operator==" -> RawEq(T, v, w, build)
      [] op = "operator!=" -> ~RawEq(T, v, w, build)
      [] op = "operator<"  -> RawLess(T, v, w, build)
      [] op = "operator<=" -> RawLess(T, v, w, build) \/ RawEq(T, v, w, build)
      [] op = "operator>"  -> RawLess(T, w, v, build)
      [] op = "operator>=" -> RawLess(T, w, v, build) \/ RawEq(T, v, w, build)

\* C8 as stated: for every base type and every v, Number<T>{v} == v is true,
\* and each comparison of Number<T>{v} with a raw w gives what the comparison
\* of v with w gives.
C8_EqualsOwnValue ==
    ret.op \in Comparisons =>
        /\ ret.value = RawCompare(ret.op, Wrapped, ret.arg)
        /\ (ret.op = "operator==" /\ ret.arg = Wrapped) => ret.value = TRUE

\* C8 amended: Number<T>{v} == v is true for every v that is not a NaN (and
\* false for a NaN), and each comparison of Number<T>{v} with a raw w gives
\* what the comparison of v with w gives.
C8_EqualsOwnValueUnlessNaN ==
    ret.op \in Comparisons =>
        /\ ret.value = RawCompare(ret.op, Wrapped, ret.arg)
        /\ (ret.op = "operator==" /\ ret.arg = Wrapped)
              => ret.value = ~IsNaNValue(T, Wrapped)

\* Number<double>{v} == v found true for a negative finite v.
C8_Witness ==
    /\ T = "double"
    /\ assigned = [by |-> "constructor", type |-> T, value |-> Float("num", TRUE, 3)]
    /\ ret = [op |-> "operator==", arg |-> Float("num", TRUE, 3), value |-> TRUE]

\* C9: for every integer type and value, isNan is false and isFinite is true,
\* with and without the BDN_STD_*_INT_MISSING workaround.
C9_IntegersAreFiniteNumbers ==
    isInteger(T) =>
        /\ ret.op = "isNan" => ret.value = FALSE
        /\ ret.op = "isFinite" => ret.value = TRUE

\* isNan of an integer answered by MscNumberUtilHelper_<false>.
C9_Witness ==
    /\ build.BDN_STD_ISNAN_INT_MISSING
    /\ T = "unsigned int"
    /\ ret = [op |-> "isNan", arg |-> AllOnes(32), value |-> FALSE]

Negate(v) == [v EXCEPT !.neg = ~v.neg]

\* C10: minValue() is the most negative integer of a signed T, 0 of an unsigned
\* T and the most negative finite value of a floating point T (the negation of
\* maxValue(), not the smallest positive value), whatever the object holds.
C10_MinValueIsLowest ==
    ret.op = "minValue" =>
        /\ T \in SignedTypes =>
              /\ ret.value = {Width - 1}
              /\ \A v \in NumberSamples(T, build) : ~IntLess(T, v, ret.value, Width)
        /\ T \in UnsignedTypes => ret.value = Zero
        /\ T \in FloatTypes =>
              /\ ret.value = Negate(maxValue(T, build))
              /\ ret.value.cls = "num"
              /\ ret.value # NumericLimitsMin(T, build)
              /\ \A v \in NumberSamples(T, build) :
                    v.cls = "num" => ~RawLess(T, v, ret.value, build)

\* minValue() of Number<double> asked of an object that holds a NaN.
C10_Witness ==
    /\ T = "double"
    /\ _value = Float("nan", FALSE, 0)
    /\ ret = [op |-> "minValue", value |-> Float("num", TRUE, 4)]

====
